---- MODULE Spec2Model ----
(***************************************************************************)
(* Model of the variable-usage search engine of find-this-var:             *)
(*   - the asynchronous findNodesWithBoundVariable (progress, streaming,   *)
(*     cancellation, de-duplication by instance name), and                 *)
(*   - the synchronous findNodesWithBoundVariable (src/findBoundVariables  *)
(*     .ts, de-duplication by instance id).                                *)
(* A document is a forest of scene nodes spread over pages.  One behaviour *)
(* is one invocation of the search over one document.                      *)
(***************************************************************************)
EXTENDS Integers, Sequences, FiniteSets, TLC

\* doc: the document; calls: how many invocations the host makes;
\* s[i]: the state of invocation i; cancelFlag[i]: the flag its shouldCancel
\* polls; cancelRequestedAt[i]: the value of nodesProcessed when the host set
\* that flag (-1 while it is not set).
VARIABLES doc, calls, s, cancelFlag, cancelRequestedAt

vars == <<doc, calls, s, cancelFlag, cancelRequestedAt>>

Invocations == {1, 2}

(* ------------------------------ bounds -------------------------------- *)

MaxNodes == 3

\* the number of nodes of the long documents
LongNodes == 11

(* ------------------------- program constants -------------------------- *)

ProgressEvery == 10

(* --------------------------- the host document ------------------------ *)

PageIds == <<"p1", "p2">>

PageNames == <<"Page 1", "Page 2">>

NoAlias == "-"

\* The bindable property slots of a node, in the order checkNode reads them.
Slots == <<"fills[0].color", "width", "effects[0].radius", "componentProperties.p">>

\* The node property whose getter is read to reach a slot.
SlotGetter(slot) ==
  CASE slot = "fills[0].color" -> "fills"
    [] slot = "width" -> "boundVariables"
    [] slot = "effects[0].radius" -> "effects"
    [] slot = "componentProperties.p" -> "componentProperties"

\* figma.variables.getVariableById: v1 and v2 are copies of one definition
\* (same key), v3 is another definition, v0 is a variable whose key is the
\* empty string, v4 resolves to null, v5 throws.
getVariableById(id) ==
  CASE id = "v0" -> [status |-> "ok", id |-> "v0", key |-> "", name |-> "blank"]
    [] id = "v1" -> [status |-> "ok", id |-> "v1", key |-> "k1", name |-> "brand"]
    [] id = "v2" -> [status |-> "ok", id |-> "v2", key |-> "k1", name |-> "brand"]
    [] id = "v3" -> [status |-> "ok", id |-> "v3", key |-> "k2", name |-> "accent"]
    [] id = "v4" -> [status |-> "null"]
    [] OTHER -> [status |-> "throw"]

\* The variables a search is asked about: the local variables of the
\* document, as the host hands them to findNodesWithBoundVariable.
QueryVariables == {[id |-> "v1", key |-> "k1", name |-> "brand"]}

\* two variables of different definitions
TwoQueryVariables ==
  {[id |-> "v1", key |-> "k1", name |-> "brand"],
   [id |-> "v3", key |-> "k2", name |-> "accent"]}

\* a variable whose key is the empty string
EmptyKeyVariables == {[id |-> "v0", key |-> "", name |-> "blank"]}

NodeSeq(d) == [i \in 1..d.n |-> i]

\* node.children of scene node x, in sibling order
Children(d, x) == SelectSeq(NodeSeq(d), LAMBDA i : d.parent[i] = x)

\* page.children of the page with index p
PageChildren(d, p) == SelectSeq(NodeSeq(d), LAMBDA i : d.parent[i] = 0 /\ d.page[i] = p)

RECURSIVE Ancestors(_, _)
\* the proper ancestors of scene node x (pages excluded)
Ancestors(d, x) ==
  IF d.parent[x] = 0 THEN {} ELSE {d.parent[x]} \cup Ancestors(d, d.parent[x])

AncestorsOrSelf(d, x) == {x} \cup Ancestors(d, x)

Descendants(d, x) == {y \in 1..d.n : x \in Ancestors(d, y)}

(* --------------------------- the search state ------------------------- *)

NoCallbacks == [onProgress |-> FALSE, onStreamingResult |-> FALSE, shouldCancel |-> FALSE]

AllCallbacks == [onProgress |-> TRUE, onStreamingResult |-> TRUE, shouldCancel |-> TRUE]

EmptyMap == [x \in {} |-> ""]

\* The local state of one invocation: the closure variables of
\* findNodesWithBoundVariable plus the position of the traversal (stack, cur,
\* pc) and the log of what the invocation did (progress, streaming, lookups,
\* visits, inspected).
Idle ==
  [pc |-> "idle", impl |-> "async", variable |-> [id |-> "", key |-> "", name |-> ""],
   instancesOnly |-> FALSE, pageId |-> "", callbacks |-> NoCallbacks,
   boundNodes |-> <<>>, targetVariableIds |-> {}, variableKeyCache |-> EmptyMap,
   variableCache |-> EmptyMap, processedInstances |-> {},
   nodesProcessed |-> 0, totalNodes |-> 0, cancelled |-> FALSE,
   stack |-> <<>>, cur |-> 0,
   progress |-> <<>>, streaming |-> <<>>, lookups |-> <<>>,
   visits |-> <<>>, inspected |-> <<>>, outcome |-> "none"]

(* ------------------------- isMatchingVariable ------------------------- *)

\* a failed lookup that leaves no trace in the cache
ForgetFailedLookup(st, id) == st

\* variableKeyCache.set(id, "") : the marker of a failed lookup
CacheFailedLookup(st, id) ==
  [st EXCEPT !.variableKeyCache = (id :> "") @@ @]

\* the branch taken when a variable object is at hand
CacheResolvedKey(st, id, key) ==
  [st EXCEPT !.variableKeyCache = (id :> key) @@ @,
             !.targetVariableIds = IF key = st.variable.key THEN @ \cup {id} ELSE @]

\* isMatchingVariable comparing the ids only
isMatchingVariableById(st, id) == [st |-> st, res |-> (id = st.variable.id)]

\* Returns [st, res]: the updated caches and the verdict.
isMatchingVariable(st, id) ==
  IF id \in st.targetVariableIds THEN [st |-> st, res |-> TRUE]
  ELSE IF id \in DOMAIN st.variableKeyCache
    THEN [st |-> st, res |-> (st.variableKeyCache[id] = st.variable.key)]
  ELSE IF id \in DOMAIN st.variableCache
    THEN [st |-> CacheResolvedKey(st, id, st.variableCache[id]),
          res |-> (st.variableCache[id] = st.variable.key)]
  ELSE
    LET fetched == getVariableById(id)
        st1 == [st EXCEPT !.lookups = Append(@, id)]
    IN  IF fetched.status = "ok"
          THEN [st |-> CacheResolvedKey(
                         [st1 EXCEPT !.variableCache = (id :> fetched.key) @@ @],
                         id, fetched.key),
                res |-> (fetched.key = st.variable.key)]
          ELSE [st |-> CacheFailedLookup(st1, id), res |-> FALSE]

(* ----------------------------- node helpers --------------------------- *)

RECURSIVE ClimbTopLevelInstance(_, _, _)
\* the while loop of findTopLevelInstance: cur is currentNode, top is topInstance
\* (0 for null); every scene node has a parent, and the parent of a top-level
\* node is a PAGE.
ClimbTopLevelInstance(d, cur, top) ==
  LET top1 == IF d.type[cur] = "INSTANCE" THEN cur ELSE top
  IN  IF d.parent[cur] = 0 THEN top1
      ELSE ClimbTopLevelInstance(d, d.parent[cur], top1)

RECURSIVE findNearestInstance(_, _)
\* a climb that stops at the first INSTANCE it meets
findNearestInstance(d, node) ==
  IF d.type[node] = "INSTANCE" THEN node
  ELSE IF d.parent[node] = 0 THEN 0
  ELSE findNearestInstance(d, d.parent[node])

findTopLevelInstance(d, node) == ClimbTopLevelInstance(d, node, 0)

\* page.name || "Unnamed Page" of the page the node lives on
getNodePage(d, node) == PageNames[d.page[node]]

RECURSIVE ClimbNodePath(_, _, _)
\* the while loop of getNodePath: names are pushed in front until the parent
\* is a PAGE, so the top-level ancestor itself is not part of the path
ClimbNodePath(d, cur, path) ==
  IF d.parent[cur] = 0 THEN path
  ELSE ClimbNodePath(d, d.parent[cur], <<d.name[cur]>> \o path)

\* The joined path is kept as the sequence of its segments.
getNodePath(d, node) ==
  LET path == ClimbNodePath(d, node, <<>>)
  IN  IF Len(path) > 0 THEN path ELSE <<d.name[node]>>

BoundNodeInfo(d, node, boundProperties) ==
  [node |-> node, boundProperties |-> boundProperties,
   propertyPath |-> getNodePath(d, node), pageName |-> getNodePage(d, node)]

StreamingResult(d, st, node) ==
  [variableId |-> st.variable.id, variableName |-> st.variable.name,
   id |-> node, name |-> d.name[node], type |-> d.type[node],
   pageName |-> getNodePage(d, node)]

(* ------------------------- checkNode: inspection ---------------------- *)

RECURSIVE InspectSlots(_, _, _, _, _)
\* The property checks of checkNode's try block, slot k onwards.  Returns
\* [st, boundProperties, threw].  A getter that throws ends the inspection,
\* except for componentProperties, which has its own try/catch.
InspectSlots(d, st, node, k, boundProperties) ==
  IF k > Len(Slots)
    THEN [st |-> st, boundProperties |-> boundProperties, threw |-> FALSE]
  ELSE
    LET slot == Slots[k]
        getter == SlotGetter(slot)
        alias == d.bound[node][k]
    IN  IF getter = "componentProperties" /\ d.type[node] # "INSTANCE"
          THEN InspectSlots(d, st, node, k + 1, boundProperties)
        ELSE IF d.throws[node] = getter
          THEN IF getter = "componentProperties"
                 THEN InspectSlots(d, st, node, k + 1, boundProperties)
                 ELSE [st |-> st, boundProperties |-> boundProperties, threw |-> TRUE]
        ELSE IF alias = NoAlias
          THEN InspectSlots(d, st, node, k + 1, boundProperties)
        ELSE
          LET m == isMatchingVariable(st, alias)
          IN  InspectSlots(d, m.st, node, k + 1,
                           IF m.res THEN Append(boundProperties, slot)
                                    ELSE boundProperties)

\* "visible" in node && node.visible === false, or locked === true
IsPruned(d, node) == ~d.visible[node] \/ d.locked[node]

\* the key under which a representative is remembered: the instance name in
\* the asynchronous search, the instance id in the synchronous one
ProcessedKey(d, st, topInstance) ==
  IF st.impl = "async" THEN d.name[topInstance] ELSE topInstance

\* results whose streaming event is emitted for every match, before the
\* processed instances are looked at
AddToResultsStreamingEveryMatch(d, st, node, boundProperties) ==
  IF boundProperties = <<>> THEN st
  ELSE IF st.instancesOnly THEN
    LET topInstance == findTopLevelInstance(d, node)
        st1 == [st EXCEPT
                  !.streaming =
                     IF st.impl = "async" /\ st.callbacks.onStreamingResult /\ topInstance # 0
                       THEN Append(@, StreamingResult(d, st, topInstance))
                       ELSE @]
    IN  IF topInstance = 0 \/ ProcessedKey(d, st, topInstance) \in st.processedInstances
          THEN st1
          ELSE [st1 EXCEPT
                  !.processedInstances = @ \cup {ProcessedKey(d, st, topInstance)},
                  !.boundNodes = Append(@, BoundNodeInfo(d, topInstance, boundProperties))]
  ELSE [st EXCEPT !.boundNodes = Append(@, BoundNodeInfo(d, node, boundProperties))]

\* results in which a later match of a processed instance overwrites the
\* property list of its record
AddToResultsKeepingLastMatch(d, st, node, boundProperties) ==
  IF boundProperties = <<>> THEN st
  ELSE IF st.instancesOnly THEN
    LET topInstance == findTopLevelInstance(d, node)
    IN  IF topInstance = 0 THEN st
        ELSE IF ProcessedKey(d, st, topInstance) \in st.processedInstances
          THEN [st EXCEPT
                  !.boundNodes =
                     [k \in 1..Len(@) |->
                        IF @[k].node = topInstance
                          THEN [@[k] EXCEPT !.boundProperties = boundProperties]
                          ELSE @[k]]]
          ELSE [st EXCEPT
                  !.processedInstances = @ \cup {ProcessedKey(d, st, topInstance)},
                  !.boundNodes = Append(@, BoundNodeInfo(d, topInstance, boundProperties)),
                  !.streaming =
                     IF st.impl = "async" /\ st.callbacks.onStreamingResult
                       THEN Append(@, StreamingResult(d, st, topInstance))
                       ELSE @]
  ELSE [st EXCEPT !.boundNodes = Append(@, BoundNodeInfo(d, node, boundProperties))]

\* results that do not look at the processed instances: every match inside
\* an instance appends a record for its top-level instance
AddToResultsWithoutProcessedSet(d, st, node, boundProperties) ==
  IF boundProperties = <<>> THEN st
  ELSE IF st.instancesOnly THEN
    LET topInstance == findTopLevelInstance(d, node)
    IN  IF topInstance = 0 THEN st
        ELSE [st EXCEPT
                !.processedInstances = @ \cup {ProcessedKey(d, st, topInstance)},
                !.boundNodes = Append(@, BoundNodeInfo(d, topInstance, boundProperties)),
                !.streaming =
                   IF st.impl = "async" /\ st.callbacks.onStreamingResult
                     THEN Append(@, StreamingResult(d, st, topInstance))
                     ELSE @]
  ELSE [st EXCEPT !.boundNodes = Append(@, BoundNodeInfo(d, node, boundProperties))]

\* results in which the asynchronous search looks at the processed names in
\* direct mode as well
AddToResultsProcessedInDirectMode(d, st, node, boundProperties) ==
  IF boundProperties = <<>> THEN st
  ELSE IF st.instancesOnly THEN
    LET topInstance == findTopLevelInstance(d, node)
    IN  IF topInstance = 0 \/ ProcessedKey(d, st, topInstance) \in st.processedInstances
          THEN st
          ELSE [st EXCEPT
                  !.processedInstances = @ \cup {ProcessedKey(d, st, topInstance)},
                  !.boundNodes = Append(@, BoundNodeInfo(d, topInstance, boundProperties)),
                  !.streaming =
                     IF st.impl = "async" /\ st.callbacks.onStreamingResult
                       THEN Append(@, StreamingResult(d, st, topInstance))
                       ELSE @]
  ELSE IF st.impl = "async" /\ d.name[node] \in st.processedInstances THEN st
  ELSE [st EXCEPT
          !.processedInstances = IF st.impl = "async" THEN @ \cup {d.name[node]} ELSE @,
          !.boundNodes = Append(@, BoundNodeInfo(d, node, boundProperties))]

\* "If any properties are bound to this variable, add the node to results"
AddToResults(d, st, node, boundProperties) ==
  IF boundProperties = <<>> THEN st
  ELSE IF st.instancesOnly THEN
    LET topInstance == findTopLevelInstance(d, node)
    IN  IF topInstance = 0 \/ ProcessedKey(d, st, topInstance) \in st.processedInstances
          THEN st
          ELSE [st EXCEPT
                  !.processedInstances = @ \cup {ProcessedKey(d, st, topInstance)},
                  !.boundNodes = Append(@, BoundNodeInfo(d, topInstance, boundProperties)),
                  !.streaming =
                     IF st.impl = "async" /\ st.callbacks.onStreamingResult
                       THEN Append(@, StreamingResult(d, st, topInstance))
                       ELSE @]
  ELSE [st EXCEPT !.boundNodes = Append(@, BoundNodeInfo(d, node, boundProperties))]

(* ------------------------- the traversal position --------------------- *)

\* the page list without the pageId filter
PagesToSearchUnfiltered(st) == [i \in 1..Len(PageIds) |-> i]

\* the pages the search goes through, as page indexes in document order
PagesToSearch(st) ==
  IF st.pageId # ""
    THEN SelectSeq([i \in 1..Len(PageIds) |-> i], LAMBDA i : PageIds[i] = st.pageId)
    ELSE [i \in 1..Len(PageIds) |-> i]

Frame(kind, node, i) == [kind |-> kind, node |-> node, i |-> i]

Top(stack) == stack[Len(stack)]

Pop(stack) == SubSeq(stack, 1, Len(stack) - 1)

\* replace the top frame's loop index
Bump(stack) == [stack EXCEPT ![Len(stack)].i = @ + 1]

\* a page loop that does not look at cancelled
PageGuardIgnoringCancelled(st) == TRUE

\* "page.type === PAGE && !cancelled" of the asynchronous page loop; the
\* synchronous forEach has no such flag
PageGuard(st) == ~st.cancelled

\* an end whose final progress update reports no match
FinishReportingNoMatches(st) ==
  [st EXCEPT
     !.pc = "done", !.cur = 0, !.stack = <<>>,
     !.outcome = IF st.cancelled THEN "cancelled" ELSE "completed",
     !.progress =
        IF st.callbacks.onProgress /\ st.totalNodes > 0 /\ ~st.cancelled
          THEN Append(@, [current |-> st.totalNodes, total |-> st.totalNodes, nodesFound |-> 0])
          ELSE @]

\* an end whose final progress update does not look at cancelled
FinishReportingWhenCancelled(st) ==
  [st EXCEPT
     !.pc = "done", !.cur = 0, !.stack = <<>>,
     !.outcome = IF st.cancelled THEN "cancelled" ELSE "completed",
     !.progress =
        IF st.callbacks.onProgress /\ st.totalNodes > 0
          THEN Append(@, [current |-> st.totalNodes, total |-> st.totalNodes,
                          nodesFound |-> Len(st.boundNodes)])
          ELSE @]

\* an end of the search whose last progress update reports the visits made
FinishReportingVisited(st) ==
  [st EXCEPT
     !.pc = "done", !.cur = 0, !.stack = <<>>,
     !.outcome = IF st.cancelled THEN "cancelled" ELSE "completed",
     !.progress =
        IF st.callbacks.onProgress /\ st.totalNodes > 0 /\ ~st.cancelled
          THEN Append(@, [current |-> st.nodesProcessed, total |-> st.totalNodes,
                          nodesFound |-> Len(st.boundNodes)])
          ELSE @]

\* the end of findNodesWithBoundVariable: the final progress update and the
\* return of boundNodes
Finish(st) ==
  [st EXCEPT
     !.pc = "done", !.cur = 0, !.stack = <<>>,
     !.outcome = IF st.cancelled THEN "cancelled" ELSE "completed",
     !.progress =
        IF st.callbacks.onProgress /\ st.totalNodes > 0 /\ ~st.cancelled
          THEN Append(@, [current |-> st.totalNodes, total |-> st.totalNodes,
                          nodesFound |-> Len(st.boundNodes)])
          ELSE @]

RECURSIVE Advance(_, _)
\* One round of the loops of the traversal (pages, page children,
\* findInstancesInNode, the children loop of checkNode): the loop on top of
\* the stack calls checkNode on its next node, which is left pending in cur
\* with pc = "enter", or enters an inner loop, or ends; when the loops are
\* exhausted the search finishes.
AdvanceStep(d, st) ==
  IF st.stack = <<>> THEN Finish(st)
  ELSE
    LET top == Top(st.stack)
        kids == IF top.kind = "root" THEN PagesToSearch(st)
                ELSE IF top.kind = "page" THEN PageChildren(d, top.node)
                ELSE Children(d, top.node)
    IN  CASE top.kind = "root" ->
               IF top.i > Len(kids) THEN Advance(d, [st EXCEPT !.stack = Pop(@)])
               ELSE IF ~PageGuard(st) THEN Advance(d, [st EXCEPT !.stack = Bump(@)])
               ELSE Advance(d, [st EXCEPT !.stack = Append(Bump(@), Frame("page", kids[top.i], 1))])
          [] top.kind = "page" ->
               IF top.i > Len(kids) THEN Advance(d, [st EXCEPT !.stack = Pop(@)])
               ELSE IF st.instancesOnly
                 THEN Advance(d, [st EXCEPT !.stack = Append(Bump(@), Frame("find", kids[top.i], 0))])
                 ELSE [st EXCEPT !.stack = Bump(@), !.pc = "enter", !.cur = kids[top.i]]
          [] top.kind = "find" ->
               IF top.i = 0
                 THEN IF d.type[top.node] = "INSTANCE"
                        THEN [st EXCEPT !.stack = Bump(@), !.pc = "enter", !.cur = top.node]
                        ELSE Advance(d, [st EXCEPT !.stack = Bump(@)])
               ELSE IF top.i > Len(kids) THEN Advance(d, [st EXCEPT !.stack = Pop(@)])
               ELSE Advance(d, [st EXCEPT !.stack = Append(Bump(@), Frame("find", kids[top.i], 0))])
          [] top.kind = "check" ->
               IF top.i > Len(kids) THEN Advance(d, [st EXCEPT !.stack = Pop(@)])
               ELSE [st EXCEPT !.stack = Bump(@), !.pc = "enter", !.cur = kids[top.i]]

\* Runs the loops of the traversal from the state reached (a value, worked out
\* once) up to the next call of checkNode or to the end of the search.
Advance(d, reached) == CHOOSE next \in {AdvanceStep(d, st) : st \in {reached}} : TRUE

\* a cancellation that returns an empty list
PropagateCancellationDroppingRecords(d, st) ==
  Advance(d, [st EXCEPT !.cancelled = TRUE, !.stack = <<st.stack[1]>>, !.boundNodes = <<>>])

\* a cancellation whose false is not turned into cancelled = true
PropagateCancellationWithoutFlag(d, st) ==
  Advance(d, [st EXCEPT !.stack = <<st.stack[1]>>])

\* a cancellation that ends only the innermost loop: the false returned by
\* checkNode is not handed on by the loops around it
PropagateCancellationOneLevel(d, st) ==
  Advance(d, [st EXCEPT !.cancelled = TRUE])

\* checkNode returned false: every enclosing checkNode and findInstancesInNode
\* returns false in turn, the page's loop sets cancelled and breaks, and the
\* loop over the pages goes on under its guard.
PropagateCancellation(d, st) ==
  Advance(d, [st EXCEPT !.cancelled = TRUE, !.stack = <<st.stack[1]>>])

(* ------------------------------ checkNode ----------------------------- *)

Min(a, b) == IF a < b THEN a ELSE b

\* "Update every 10 nodes, or on first/last node"
IsProgressVisit(st, n) ==
  n % ProgressEvery = 0 \/ n = 1 \/ n = st.totalNodes

\* a head of checkNode that polls shouldCancel only at the visits that
\* update the progress
EnterCheckNodePollingAtProgress(d, st, flag) ==
  IF st.impl = "sync" THEN [st EXCEPT !.pc = "body", !.visits = Append(@, st.cur)]
  ELSE IF st.callbacks.shouldCancel /\ flag /\ IsProgressVisit(st, st.nodesProcessed + 1)
    THEN PropagateCancellation(d, st)
  ELSE
    LET n == st.nodesProcessed + 1
        st1 == [st EXCEPT !.nodesProcessed = n, !.visits = Append(@, st.cur)]
    IN  IF st.callbacks.onProgress /\ st.totalNodes > 0 /\ IsProgressVisit(st, n)
          THEN [st1 EXCEPT
                  !.progress = Append(@, [current |-> Min(n, st.totalNodes),
                                          total |-> st.totalNodes,
                                          nodesFound |-> Len(st.boundNodes)]),
                  !.pc = "yield"]
          ELSE [st1 EXCEPT !.pc = "body"]

\* The head of checkNode, up to the cooperative yield: the cancellation poll,
\* the visit counter and the progress update.  flag is what shouldCancel
\* returns.  The synchronous checkNode has no such head.
EnterCheckNode(d, st, flag) ==
  IF st.impl = "sync" THEN [st EXCEPT !.pc = "body", !.visits = Append(@, st.cur)]
  ELSE IF st.callbacks.shouldCancel /\ flag THEN PropagateCancellation(d, st)
  ELSE
    LET n == st.nodesProcessed + 1
        st1 == [st EXCEPT !.nodesProcessed = n, !.visits = Append(@, st.cur)]
    IN  IF st.callbacks.onProgress /\ st.totalNodes > 0 /\ IsProgressVisit(st, n)
          THEN [st1 EXCEPT
                  !.progress = Append(@, [current |-> Min(n, st.totalNodes),
                                          total |-> st.totalNodes,
                                          nodesFound |-> Len(st.boundNodes)]),
                  !.pc = "yield"]
          ELSE [st1 EXCEPT !.pc = "body"]

\* the catch block of checkNode: the node is skipped with a warning and
\* checkNode returns true
SkipNodeOnError(d, st) == Advance(d, st)

\* The try block of checkNode for the pending node, and the loops that follow
\* it up to the next call of checkNode.
CheckNodeBody(d, st) ==
  LET node == st.cur IN
  IF IsPruned(d, node) THEN Advance(d, st)
  ELSE
    LET r == InspectSlots(d, [st EXCEPT !.inspected = Append(@, node)], node, 1, <<>>)
    IN  IF r.threw THEN SkipNodeOnError(d, r.st)
        ELSE Advance(d, [AddToResults(d, r.st, node, r.boundProperties)
                           EXCEPT !.stack = Append(@, Frame("check", node, 1))])

(* --------------------- findNodesWithBoundVariable --------------------- *)

RECURSIVE countNodes(_, _)
RECURSIVE countNodesOfAll(_, _, _)
countNodes(d, node) == 1 + countNodesOfAll(d, Children(d, node), 1)

\* nodes.forEach(child => count += countNodes(child)), from position k on
countNodesOfAll(d, nodes, k) ==
  IF k > Len(nodes) THEN 0
  ELSE countNodes(d, nodes[k]) + countNodesOfAll(d, nodes, k + 1)

RECURSIVE countInstanceNodes(_, _)
RECURSIVE countInstanceNodesOfAll(_, _, _)
countInstanceNodes(d, node) ==
  (IF d.type[node] = "INSTANCE" THEN countNodes(d, node) ELSE 0)
    + countInstanceNodesOfAll(d, Children(d, node), 1)

\* nodes.forEach(child => count += countInstanceNodes(child)), from position k on
countInstanceNodesOfAll(d, nodes, k) ==
  IF k > Len(nodes) THEN 0
  ELSE countInstanceNodes(d, nodes[k]) + countInstanceNodesOfAll(d, nodes, k + 1)

RECURSIVE CountTotalNodesFrom(_, _, _)
\* the pre-pass over pagesToSearch, from page position k on
CountTotalNodesFrom(d, st, k) ==
  IF k > Len(PagesToSearch(st)) THEN 0
  ELSE (IF st.instancesOnly
          THEN countInstanceNodesOfAll(d, PageChildren(d, PagesToSearch(st)[k]), 1)
          ELSE countNodesOfAll(d, PageChildren(d, PagesToSearch(st)[k]), 1))
       + CountTotalNodesFrom(d, st, k + 1)

CountTotalNodes(d, st) == CountTotalNodesFrom(d, st, 1)

\* a call that goes on with the processed instances of the call before it
FreshStateKeepingProcessed(previous, impl, variable, instancesOnly, pageId, callbacks) ==
  [Idle EXCEPT
     !.impl = impl, !.variable = variable,
     !.instancesOnly = instancesOnly, !.pageId = pageId,
     !.callbacks = callbacks,
     !.targetVariableIds = {variable.id},
     !.variableKeyCache = (variable.id :> variable.key),
     !.variableCache = (variable.id :> variable.key),
     !.processedInstances = previous.processedInstances]

\* a call that goes on with the id set, the key cache, the processed instances
\* and the visit counter of the call before it
FreshStateSharingCaches(previous, impl, variable, instancesOnly, pageId, callbacks) ==
  [Idle EXCEPT
     !.impl = impl, !.variable = variable,
     !.instancesOnly = instancesOnly, !.pageId = pageId,
     !.callbacks = callbacks,
     !.targetVariableIds = previous.targetVariableIds \cup {variable.id},
     !.variableKeyCache = (variable.id :> variable.key) @@ previous.variableKeyCache,
     !.variableCache = (variable.id :> variable.key) @@ previous.variableCache,
     !.processedInstances = previous.processedInstances,
     !.nodesProcessed = previous.nodesProcessed]

\* The closure state a call creates (boundNodes, the id set, the caches, the
\* processed instances, the counters).  previous is the state of the call
\* made before this one: nothing of it is read.
FreshState(previous, impl, variable, instancesOnly, pageId, callbacks) ==
  [Idle EXCEPT
     !.impl = impl, !.variable = variable,
     !.instancesOnly = instancesOnly, !.pageId = pageId,
     !.callbacks = callbacks,
     !.targetVariableIds = {variable.id},
     !.variableKeyCache = (variable.id :> variable.key),
     !.variableCache = (variable.id :> variable.key)]

\* The invocation up to its first call of checkNode: fresh state, the page
\* filter, the pre-pass count and the initial progress update (asynchronous
\* search only), then the loops.
Begin(d, previous, impl, variable, instancesOnly, pageId, callbacks) ==
  LET st0 == FreshState(previous, impl, variable, instancesOnly, pageId, callbacks)
  IN  IF pageId # "" /\ PagesToSearch(st0) = <<>>
        THEN [st0 EXCEPT !.pc = "done", !.outcome = "pageNotFound"]
      ELSE IF impl = "sync"
        THEN Advance(d, [st0 EXCEPT !.stack = <<Frame("root", 0, 1)>>])
      ELSE
        LET total == CountTotalNodes(d, st0)
        IN  Advance(d, [st0 EXCEPT
                          !.totalNodes = total,
                          !.progress = IF callbacks.onProgress /\ total > 0
                                         THEN <<[current |-> 0, total |-> total, nodesFound |-> 0]>>
                                         ELSE <<>>,
                          !.stack = <<Frame("root", 0, 1)>>])

\* one step of an invocation that nobody cancels
StepAlone(d, st) ==
  CASE st.pc = "enter" -> EnterCheckNode(d, st, FALSE)
    [] st.pc = "yield" -> [st EXCEPT !.pc = "body"]
    [] st.pc = "body" -> CheckNodeBody(d, st)

RECURSIVE RunToEnd(_, _)
\* the invocation run to its return without cancellation
RunToEnd(d, st) == IF st.pc = "done" THEN st ELSE RunToEnd(d, StepAlone(d, st))

(* ---------------------- getVariableUsageSummary ----------------------- *)

\* the characters of a property path
PathText(path) ==
  CASE path = "fills[0].color" ->
         <<"f", "i", "l", "l", "s", "[", "0", "]", ".", "c", "o", "l", "o", "r">>
    [] path = "width" -> <<"w", "i", "d", "t", "h">>
    [] path = "effects[0].radius" ->
         <<"e", "f", "f", "e", "c", "t", "s", "[", "0", "]", ".", "r", "a", "d", "i", "u", "s">>
    [] path = "componentProperties.p" ->
         <<"c", "o", "m", "p", "o", "n", "e", "n", "t", "P", "r", "o", "p", "e", "r", "t",
           "i", "e", "s", ".", "p">>

RECURSIVE SplitFirst(_, _, _)
\* text.split(sep)[0], from position k on
SplitFirst(text, sep, k) ==
  IF k > Len(text) \/ text[k] = sep THEN <<>>
  ELSE <<text[k]>> \o SplitFirst(text, sep, k + 1)

\* prop.split("[")[0] alone
BasePropertyBeforeBracket(path) == SplitFirst(PathText(path), "[", 1)

\* prop.split("[")[0].split(".")[0]
BaseProperty(path) == SplitFirst(SplitFirst(PathText(path), "[", 1), ".", 1)

\* (map[key] || 0) + 1
Increment(map, key) ==
  IF key \in DOMAIN map THEN [map EXCEPT ![key] = @ + 1] ELSE (key :> 1) @@ map

RECURSIVE CountProperties(_, _, _)
CountProperties(usage, boundProperties, k) ==
  IF k > Len(boundProperties) THEN usage
  ELSE CountProperties(Increment(usage, BaseProperty(boundProperties[k])),
                       boundProperties, k + 1)

RECURSIVE Summarize(_, _, _, _)
\* the forEach over boundNodes
Summarize(d, summary, boundNodes, k) ==
  IF k > Len(boundNodes) THEN summary
  ELSE Summarize(d,
         [summary EXCEPT
            !.nodesByType = Increment(@, d.type[boundNodes[k].node]),
            !.propertyUsage = CountProperties(@, boundNodes[k].boundProperties, 1)],
         boundNodes, k + 1)

\* The summary getVariableUsageSummary builds from the list returned by its
\* call of findNodesWithBoundVariable.
getVariableUsageSummary(d, boundNodes) ==
  Summarize(d,
    [totalNodes |-> Len(boundNodes), nodesByType |-> EmptyMap,
     propertyUsage |-> EmptyMap, nodes |-> boundNodes],
    boundNodes, 1)

(* ------------------------- the documents searched --------------------- *)

NodeIds == 1..MaxNodes

\* Forests over the nodes, numbered in document order: the parent of node i
\* is 0 (a page) or lies on the path from node i - 1 to its page.
ParentVectors ==
  {f \in [NodeIds -> 0..(MaxNodes - 1)] :
     /\ \A i \in NodeIds : f[i] < i
     /\ \A i \in NodeIds \ {1} :
          f[i] = 0 \/ f[i] \in AncestorsOrSelf([parent |-> f], i - 1)}

RECURSIVE TopLevelAncestor(_, _)
TopLevelAncestor(f, i) == IF f[i] = 0 THEN i ELSE TopLevelAncestor(f, f[i])

\* The top-level nodes up to node split are children of the first page, the
\* later ones of the second.
PageAssignment(f, split) ==
  [i \in NodeIds |-> IF TopLevelAncestor(f, i) <= split THEN 1 ELSE 2]

NodeKinds == {"frame", "frame+", "inst", "inst+"}

InstanceNames == <<"Button 1", "Button 2", "Button 3", "Button 4", "Button 5", "Button 6">>

Faults == {"invisible", "locked", "effects", "componentProperties"}

\* The aliases a bound node of the given kind carries, slot by slot.
BindingsOfKind(kind, alias) ==
  CASE kind = "frame+" -> <<alias, alias, NoAlias, NoAlias>>
    [] kind = "inst+" -> <<alias, NoAlias, NoAlias, alias>>
    [] OTHER -> <<NoAlias, NoAlias, NoAlias, NoAlias>>

\* kind: the kind of each node; alias: the alias its bound nodes carry;
\* sameName: whether all instances carry one name; faulty, fault: the node
\* (0 for none) that is invisible, locked or has a throwing getter.  The
\* document has the one local variable of QueryVariables.
Document(f, split, kind, alias, sameName, faulty, fault) ==
  [n |-> MaxNodes,
   variables |-> QueryVariables,
   parent |-> f,
   page |-> PageAssignment(f, split),
   type |-> [i \in NodeIds |-> IF kind[i] \in {"inst", "inst+"} THEN "INSTANCE" ELSE "FRAME"],
   name |-> [i \in NodeIds |->
               IF kind[i] \in {"inst", "inst+"}
                 THEN (IF sameName THEN "Button" ELSE InstanceNames[i])
                 ELSE "Frame"],
   visible |-> [i \in NodeIds |-> ~(i = faulty /\ fault = "invisible")],
   locked |-> [i \in NodeIds |-> i = faulty /\ fault = "locked"],
   throws |-> [i \in NodeIds |->
                 IF i = faulty /\ fault \in {"effects", "componentProperties"}
                   THEN fault ELSE "none"],
   bound |-> [i \in NodeIds |-> BindingsOfKind(kind[i], alias)]]

AllBoundKinds == [NodeIds -> {"frame+", "inst+"}]

\* the flat forest and the chain
FlatAndChain == {[i \in NodeIds |-> 0], [i \in NodeIds |-> i - 1]}

\* documents without faults, all on the first page: every shape, every
\* assignment of kinds, every instance with a name of its own
StructureDocuments ==
  {Document(f, split, kind, "v1", FALSE, 0, "none") :
     f \in ParentVectors, split \in {MaxNodes}, kind \in [NodeIds -> NodeKinds]}

\* documents of instances that all carry one name: every shape, bound and
\* unbound instances
SameNameDocuments ==
  {Document(f, split, kind, "v1", TRUE, 0, "none") :
     f \in ParentVectors, split \in {MaxNodes}, kind \in [NodeIds -> {"inst", "inst+"}]}

\* documents spread over both pages, all nodes bound
PagedDocuments ==
  {Document(f, split, kind, "v1", FALSE, 0, "none") :
     f \in ParentVectors, split \in {1}, kind \in AllBoundKinds}

\* documents in which one node is invisible, locked or throws; the getter of
\* componentProperties is one of an INSTANCE
FaultDocuments ==
  UNION {{Document(f, split, kind, "v1", FALSE, faulty, fault) :
            fault \in IF kind[faulty] = "inst+" THEN Faults
                      ELSE Faults \ {"componentProperties"}} :
           f \in ParentVectors, split \in {MaxNodes}, kind \in AllBoundKinds,
           faulty \in NodeIds}

\* documents whose bindings go through another alias, side by side or nested
\* in one another
AliasDocuments ==
  {Document(f, split, kind, alias, FALSE, 0, "none") :
     f \in FlatAndChain, split \in {MaxNodes}, kind \in AllBoundKinds,
     alias \in {"v2", "v3", "v4", "v5"}}

\* the documents of the two-call scenarios: instances only, all bound
TwoCallDocuments ==
  {Document(f, split, kind, "v1", sameName, 0, "none") :
     f \in ParentVectors, split \in {MaxNodes}, kind \in [NodeIds -> {"inst+"}],
     sameName \in BOOLEAN}

\* the aliases of the nodes of a document with two variables, node by node
AliasCycle == <<"v2", "v3", "v1">>

\* the documents of the two-variable scenarios: equally named instances, side
\* by side or nested in one another, all bound, node after node to the second
\* variable, to the first variable and to a copy of the first variable
TwoVariableDocuments ==
  {[Document(f, MaxNodes, [i \in NodeIds |-> "inst+"], "v1", TRUE, 0, "none") EXCEPT
      !.variables = TwoQueryVariables,
      !.bound = [i \in NodeIds |-> BindingsOfKind("inst+", AliasCycle[(i % 3) + 1])]] :
     f \in FlatAndChain}

\* documents whose variable has the empty key and whose bindings go through
\* an alias that does not resolve
EmptyKeyDocuments ==
  {[Document(f, MaxNodes, kind, alias, FALSE, 0, "none") EXCEPT
      !.variables = EmptyKeyVariables] :
     f \in ParentVectors, kind \in AllBoundKinds, alias \in {"v4", "v5"}}

\* a document long enough for the tenth visit: INSTANCE nodes side by side on
\* one page, all of them or every second one with the FRAME after it as its
\* child; every second node bound
LongDocuments ==
  {[n |-> LongNodes,
    variables |-> QueryVariables,
    parent |-> [i \in 1..LongNodes |-> IF paired /\ i % 2 = 0 THEN i - 1 ELSE 0],
    page |-> [i \in 1..LongNodes |-> 1],
    type |-> [i \in 1..LongNodes |-> IF paired /\ i % 2 = 0 THEN "FRAME" ELSE "INSTANCE"],
    name |-> [i \in 1..LongNodes |-> IF paired /\ i % 2 = 0 THEN "Frame" ELSE "Button"],
    visible |-> [i \in 1..LongNodes |-> TRUE],
    locked |-> [i \in 1..LongNodes |-> FALSE],
    throws |-> [i \in 1..LongNodes |-> "none"],
    bound |-> [i \in 1..LongNodes |->
                 BindingsOfKind(IF i % 2 = 0 THEN "frame+" ELSE "frame", "v1")]] :
     paired \in BOOLEAN}

Documents ==
  StructureDocuments \cup SameNameDocuments \cup PagedDocuments \cup FaultDocuments
    \cup AliasDocuments

(* ------------------------------ the inputs ---------------------------- *)

PageIdInputs == {"", "p2", "px"}

CallbackInputs == {NoCallbacks, AllCallbacks}

(* ------------------------------ the actions --------------------------- *)

\* JavaScript runs one task at a time: the host, a timer or a new call gets
\* to run only while no invocation is between two yields.
NobodyRunning == \A j \in Invocations : s[j].pc \in {"idle", "yield", "done"}

InitWith(documents, n) ==
  /\ doc \in documents
  /\ calls = n
  /\ s = [i \in Invocations |-> Idle]
  /\ cancelFlag = [i \in Invocations |-> FALSE]
  /\ cancelRequestedAt = [i \in Invocations |-> -1]

Init == InitWith(Documents, 1)

\* the state of the call made before call i
Previous(i) == IF i - 1 \in Invocations THEN s[i - 1] ELSE Idle

CanStart(i) ==
  /\ i <= calls
  /\ s[i].pc = "idle"
  /\ \A j \in Invocations : j < i => s[j].pc # "idle"
  /\ NobodyRunning

\* a call of the asynchronous findNodesWithBoundVariable
StartSearch(i) ==
  /\ CanStart(i)
  /\ \E variable \in doc.variables, instancesOnly \in BOOLEAN,
        pageId \in PageIdInputs, callbacks \in CallbackInputs :
       s' = [s EXCEPT ![i] = Begin(doc, Previous(i), "async", variable, instancesOnly, pageId,
                                  callbacks)]
  /\ UNCHANGED <<doc, calls, cancelFlag, cancelRequestedAt>>

\* a call of the synchronous findNodesWithBoundVariable, which runs to its
\* return without interruption
StartSyncSearch(i) ==
  /\ CanStart(i)
  /\ ~cancelFlag[i]
  /\ \E variable \in doc.variables, instancesOnly \in BOOLEAN, pageId \in PageIdInputs :
       s' = [s EXCEPT ![i] = RunToEnd(doc, Begin(doc, Previous(i), "sync", variable,
                                                 instancesOnly, pageId, NoCallbacks))]
  /\ UNCHANGED <<doc, calls, cancelFlag, cancelRequestedAt>>

\* checkNode is called on the pending node
CheckNodeEnter(i) ==
  /\ s[i].pc = "enter"
  /\ s' = [s EXCEPT ![i] = EnterCheckNode(doc, s[i], cancelFlag[i])]
  /\ UNCHANGED <<doc, calls, cancelFlag, cancelRequestedAt>>

\* the setTimeout(resolve, 0) of the yield fires
TimerFires(i) ==
  /\ s[i].pc = "yield"
  /\ NobodyRunning
  /\ s' = [s EXCEPT ![i].pc = "body"]
  /\ UNCHANGED <<doc, calls, cancelFlag, cancelRequestedAt>>

\* checkNode goes on with its try block
CheckNodeRun(i) ==
  /\ s[i].pc = "body"
  /\ s' = [s EXCEPT ![i] = CheckNodeBody(doc, s[i])]
  /\ UNCHANGED <<doc, calls, cancelFlag, cancelRequestedAt>>

\* The host sets the flag that shouldCancel of invocation i polls, before the
\* call or during one of its yields, and leaves it set.
HostCancel(i) ==
  /\ i <= calls
  /\ s[i].pc \in {"idle", "yield"}
  /\ \A j \in Invocations : j < i => s[j].pc # "idle"
  /\ NobodyRunning
  /\ ~cancelFlag[i]
  /\ cancelFlag' = [cancelFlag EXCEPT ![i] = TRUE]
  /\ cancelRequestedAt' = [cancelRequestedAt EXCEPT ![i] = s[i].nodesProcessed]
  /\ UNCHANGED <<doc, calls, s>>

Next ==
  \/ \E i \in Invocations : StartSearch(i)
  \/ \E i \in Invocations : StartSyncSearch(i)
  \/ \E i \in Invocations : CheckNodeEnter(i)
  \/ \E i \in Invocations : TimerFires(i)
  \/ \E i \in Invocations : CheckNodeRun(i)
  \/ \E i \in Invocations : HostCancel(i)

Spec == Init /\ [][Next]_vars

\* The host makes two calls, one after the other or the second during a yield
\* of the first, over a document whose nodes are all bound.
InitTwoCalls == InitWith(TwoCallDocuments, 2)

SpecTwoCalls == InitTwoCalls /\ [][Next]_vars

\* The host makes two calls as above, each for one of the two variables of
\* the document.
InitTwoVariables == InitWith(TwoVariableDocuments, 2)

SpecTwoVariables == InitTwoVariables /\ [][Next]_vars

\* The host asks about a variable whose key is the empty string.
InitEmptyKey == InitWith(EmptyKeyDocuments, 1)

SpecEmptyKey == InitEmptyKey /\ [][Next]_vars

\* The host searches a document of more than ten nodes.
InitLongScan == InitWith(LongDocuments, 1)

SpecLongScan == InitLongScan /\ [][Next]_vars

\* The single call of a search over a document of two pages, in which the
\* event loop keeps running a task that is ready: the timer of
\* setTimeout(resolve, 0) fires, and the awaiting checkNode goes on.
InitResuming == InitWith(PagedDocuments, 1)

SpecResuming ==
  /\ InitResuming
  /\ [][Next]_vars
  /\ WF_vars(\E i \in Invocations :
               CheckNodeEnter(i) \/ TimerFires(i) \/ CheckNodeRun(i))

(* ===================== what the claims speak about ===================== *)

Range(seq) == {seq[k] : k \in 1..Len(seq)}

IsPrefix(a, b) == Len(a) <= Len(b) /\ a = SubSeq(b, 1, Len(a))

Started(i) == s[i].pc # "idle"

Returned(i) == s[i].pc = "done"

Completed(i) == s[i].pc = "done" /\ s[i].outcome = "completed"

Cancelled(i) == s[i].pc = "done" /\ s[i].outcome = "cancelled"

\* the nodes named by a record list, in order
RecordNodes(records) == [k \in 1..Len(records) |-> records[k].node]

\* Equivalence of an alias and the queried definition: the ids are equal or
\* the alias resolves to a variable with the same key.
Equivalent(alias, variable) ==
  \/ alias = variable.id
  \/ /\ getVariableById(alias).status = "ok"
     /\ getVariableById(alias).key = variable.key

\* Slot k of the node is one the walker reads a binding from.
SlotIsRead(d, node, k) ==
  /\ d.bound[node][k] # NoAlias
  /\ SlotGetter(Slots[k]) = "componentProperties" =>
       (d.type[node] = "INSTANCE" /\ d.throws[node] # "componentProperties")

\* the property paths of the node whose binding is equivalent to the variable
EquivalentPaths(d, variable, node) ==
  LET idx == SelectSeq([k \in 1..Len(Slots) |-> k],
                       LAMBDA k : SlotIsRead(d, node, k)
                                  /\ Equivalent(d.bound[node][k], variable))
  IN  [k \in 1..Len(idx) |-> Slots[idx[k]]]

\* No getter of the node throws out of the try block of checkNode.
ReadsCleanly(d, node) == d.throws[node] \in {"none", "componentProperties"}

\* no invisible or locked ancestor-or-self
Unpruned(d, node) == \A a \in AncestorsOrSelf(d, node) : d.visible[a] /\ ~d.locked[a]

RECURSIVE PreOrder(_, _)
RECURSIVE PreOrderOfAll(_, _, _)
\* the subtree of the node in depth-first pre-order, siblings in their order
PreOrder(d, node) == <<node>> \o PreOrderOfAll(d, Children(d, node), 1)

\* the subtrees of the nodes from position k on, one after the other
PreOrderOfAll(d, nodes, k) ==
  IF k > Len(nodes) THEN <<>>
  ELSE PreOrder(d, nodes[k]) \o PreOrderOfAll(d, nodes, k + 1)

\* the pages in the scope of a search, in document order
ScopePages(pageId) ==
  SelectSeq([p \in 1..Len(PageIds) |-> p], LAMBDA p : pageId = "" \/ PageIds[p] = pageId)

RECURSIVE ScopeOrderFrom(_, _, _)
ScopeOrderFrom(d, pages, k) ==
  IF k > Len(pages) THEN <<>>
  ELSE PreOrderOfAll(d, PageChildren(d, pages[k]), 1) \o ScopeOrderFrom(d, pages, k + 1)

\* all nodes in the scope, pages in document order, each page in pre-order
ScopeOrder(d, pageId) == ScopeOrderFrom(d, ScopePages(pageId), 1)

\* what invocation i returns when nobody cancels it
Uncancelled(i) ==
  RunToEnd(doc, Begin(doc, Idle, s[i].impl, s[i].variable, s[i].instancesOnly,
                      s[i].pageId, s[i].callbacks))

(* ================================ C1 =================================== *)

\* C1: in direct mode, every inspected node with a binding whose alias id
\* differs from variable.id but resolves to a variable with variable.key has
\* a record, and that record lists the property exactly as for an alias with
\* variable.id: its paths are all paths of the node with an equivalent
\* binding (a node whose getter throws has no record in either case).
C1_KeyMatchReported ==
  \A i \in Invocations :
    ~s[i].instancesOnly =>
      \A n \in Range(s[i].inspected) :
        (/\ ReadsCleanly(doc, n)
         /\ \E k \in 1..Len(Slots) :
              /\ SlotIsRead(doc, n, k)
              /\ doc.bound[n][k] # s[i].variable.id
              /\ Equivalent(doc.bound[n][k], s[i].variable))
        => BoundNodeInfo(doc, n, EquivalentPaths(doc, s[i].variable, n))
             \in Range(s[i].boundNodes)

C1_Witness ==
  \E i \in Invocations :
    /\ ~s[i].instancesOnly
    /\ \E r \in Range(s[i].boundNodes) :
         \E k \in 1..Len(Slots) :
           /\ Slots[k] \in Range(r.boundProperties)
           /\ doc.bound[r.node][k] # s[i].variable.id

(* ================================ C2 =================================== *)

\* C2: no record names an invisible node or a descendant of an invisible
\* node, in either mode.
C2_InvisibleSubtreeAbsent ==
  \A i \in Invocations :
    \A r \in Range(s[i].boundNodes) :
      \A a \in AncestorsOrSelf(doc, r.node) : doc.visible[a]

(* ================================ C3 =================================== *)

\* the reachable nodes below the container that match and read cleanly
MatchingDescendants(d, variable, c) ==
  {m \in Descendants(d, c) :
     /\ Unpruned(d, m)
     /\ ReadsCleanly(d, m)
     /\ EquivalentPaths(d, variable, m) # <<>>}

\* C3: in representative-only mode, an INSTANCE container in the scope that
\* is not nested in another INSTANCE and has two or more matching descendants
\* is named by exactly one record of a completed search, and no record names
\* one of those descendants.
C3_OneRecordPerContainer ==
  \A i \in Invocations :
    (Completed(i) /\ s[i].instancesOnly) =>
      \A c \in 1..doc.n :
        (/\ doc.type[c] = "INSTANCE"
         /\ doc.page[c] \in Range(ScopePages(s[i].pageId))
         /\ findTopLevelInstance(doc, c) = c
         /\ Cardinality(MatchingDescendants(doc, s[i].variable, c)) >= 2)
        => /\ Cardinality({k \in 1..Len(s[i].boundNodes) : s[i].boundNodes[k].node = c}) = 1
           /\ \A r \in Range(s[i].boundNodes) :
                r.node \notin MatchingDescendants(doc, s[i].variable, c)

(* ================================ C4 =================================== *)

\* C4: a node whose property read throws in checkNode has no record, the
\* search still returns normally, and every child of the node is visited by
\* the time the search has completed.
C4_ChildrenOfThrowingNodeVisited ==
  \A i \in Invocations :
    /\ \A n \in Range(s[i].inspected) :
         ~ReadsCleanly(doc, n) => n \notin Range(RecordNodes(s[i].boundNodes))
    /\ Completed(i) =>
         \A n \in Range(s[i].inspected) :
           ~ReadsCleanly(doc, n) => Range(Children(doc, n)) \subseteq Range(s[i].visits)

(* ================================ C5 =================================== *)

\* C5: the step in which a search is cancelled leaves the record list as it
\* was accumulated, and that list is a prefix of the list the same search
\* returns when it is not cancelled.
C5_CancelledListIsPrefix ==
  [][\A i \in Invocations :
       (s[i].outcome # "cancelled" /\ s'[i].outcome = "cancelled") =>
         /\ s'[i].boundNodes = s[i].boundNodes
         /\ IsPrefix(s'[i].boundNodes, Uncancelled(i).boundNodes)]_vars

C5_Witness ==
  \E i \in Invocations :
    /\ Cancelled(i)
    /\ Len(s[i].boundNodes) >= 1
    /\ Len(s[i].boundNodes) < Len(Uncancelled(i).boundNodes)

(* ================================ C6 =================================== *)

\* shouldCancel returns true at the start of the pending checkNode call
PollsTrue(i) ==
  /\ s[i].pc = "enter"
  /\ s[i].impl = "async"
  /\ s[i].callbacks.shouldCancel
  /\ cancelFlag[i]

\* C6: the checkNode call at whose start shouldCancel returns true ends the
\* search as cancelled without inspecting or counting a node, emitting an
\* event, changing the record list or entering a later page; and a search
\* that has returned does nothing more.
C6_NothingAfterCancellation ==
  [][\A i \in Invocations :
       /\ PollsTrue(i) =>
            /\ s'[i].pc = "done"
            /\ s'[i].outcome = "cancelled"
            /\ s'[i].inspected = s[i].inspected
            /\ s'[i].visits = s[i].visits
            /\ s'[i].nodesProcessed = s[i].nodesProcessed
            /\ s'[i].progress = s[i].progress
            /\ s'[i].streaming = s[i].streaming
            /\ s'[i].boundNodes = s[i].boundNodes
            /\ s'[i].lookups = s[i].lookups
       /\ s[i].pc = "done" => s'[i] = s[i]]_vars

\* a search cancelled while a later page with nodes was still to come
C6_Witness ==
  \E i \in Invocations :
    /\ Cancelled(i)
    /\ s[i].pageId = ""
    /\ s[i].visits # <<>>
    /\ \A n \in Range(s[i].visits) : doc.page[n] = 1
    /\ \E n \in Range(Uncancelled(i).visits) : doc.page[n] = 2

(* ================================ C7 =================================== *)

\* C7 as claimed: a search during one of whose yields the flag was set has
\* the cancelled outcome and emits no completion event.
C7_CancelDuringYieldCancels ==
  \A i \in Invocations :
    (Returned(i) /\ cancelRequestedAt[i] >= 1) =>
      /\ s[i].outcome = "cancelled"
      /\ \A e \in Range(s[i].progress) : e.current < e.total

\* C7 as amended: a search during one of whose yields the flag was set has
\* the cancelled outcome and emits no completion event if checkNode is called
\* at least once more after that yield; if the yield was that of the last
\* checkNode call, the search completes.
C7_CancelTakesEffectAtNextVisit ==
  \A i \in Invocations :
    (Returned(i) /\ cancelRequestedAt[i] >= 1) =>
      IF cancelRequestedAt[i] < Len(Uncancelled(i).visits)
        THEN /\ s[i].outcome = "cancelled"
             /\ \A e \in Range(s[i].progress) : e.current < e.total
        ELSE s[i].outcome = "completed"

C7_Witness ==
  \E i \in Invocations :
    /\ Cancelled(i)
    /\ cancelRequestedAt[i] >= 1
    /\ Len(s[i].progress) >= 2

(* ================================ C8 =================================== *)

SameArguments(i, j) ==
  /\ s[i].impl = s[j].impl
  /\ s[i].variable = s[j].variable
  /\ s[i].instancesOnly = s[j].instancesOnly
  /\ s[i].pageId = s[j].pageId

\* C8: two completed calls with the same variable, mode and scope over the
\* document have returned the same ordered record list, from which the same
\* usage summary is built.
C8_SameArgumentsSameRecords ==
  \A i, j \in Invocations :
    (Completed(i) /\ Completed(j) /\ SameArguments(i, j)) =>
      /\ s[i].boundNodes = s[j].boundNodes
      /\ getVariableUsageSummary(doc, s[i].boundNodes)
           = getVariableUsageSummary(doc, s[j].boundNodes)

\* two such calls in representative-only mode, the first without callbacks
\* (so that it returned before the second was made), with a record
C8_Witness ==
  /\ Completed(1) /\ Completed(2) /\ SameArguments(1, 2)
  /\ s[1].callbacks = NoCallbacks
  /\ s[1].instancesOnly
  /\ s[1].boundNodes # <<>>

(* ================================ C9 =================================== *)

\* C9: a search whose pageId matches no page has returned an empty list
\* without visiting a node, calling the resolver or emitting an event.
C9_UnknownPageReturnsEmpty ==
  \A i \in Invocations :
    (Started(i) /\ s[i].pageId # "" /\ s[i].pageId \notin Range(PageIds)) =>
      /\ s[i].pc = "done"
      /\ s[i].outcome \in {"pageNotFound", "completed"}
      /\ s[i].boundNodes = <<>>
      /\ s[i].visits = <<>>
      /\ s[i].inspected = <<>>
      /\ s[i].nodesProcessed = 0
      /\ s[i].lookups = <<>>
      /\ s[i].progress = <<>>
      /\ s[i].streaming = <<>>

\* such a search over a document in which the variable is bound
C9_Witness ==
  \E i \in Invocations :
    /\ Returned(i)
    /\ s[i].pageId \notin (Range(PageIds) \cup {""})
    /\ \E n \in 1..doc.n :
         Unpruned(doc, n) /\ EquivalentPaths(doc, s[i].variable, n) # <<>>

(* ================================ C10 ================================== *)

\* the nodes of the scope, in document order, that have no invisible or
\* locked ancestor-or-self and a binding equivalent to the variable (a node
\* whose own getter throws is not counted among them)
DirectMatches(d, variable, pageId) ==
  SelectSeq(ScopeOrder(d, pageId),
            LAMBDA n : /\ Unpruned(d, n)
                       /\ ReadsCleanly(d, n)
                       /\ EquivalentPaths(d, variable, n) # <<>>)

\* C10: the records of a completed asynchronous search in direct mode name
\* exactly those nodes, each once, in depth-first pre-order.
C10_DirectRecordsArePreOrderMatches ==
  \A i \in Invocations :
    (Completed(i) /\ s[i].impl = "async" /\ ~s[i].instancesOnly) =>
      RecordNodes(s[i].boundNodes) = DirectMatches(doc, s[i].variable, s[i].pageId)

(* ================================ C11 ================================== *)

\* the event onStreamingResult receives for a record
EventOfRecord(d, variable, r) ==
  [variableId |-> variable.id, variableName |-> variable.name,
   id |-> r.node, name |-> d.name[r.node], type |-> d.type[r.node],
   pageName |-> r.pageName]

\* C11 as claimed: in both modes, at every moment of an asynchronous search
\* with an onStreamingResult callback there are as many streaming events as
\* records, the k-th event being that of the k-th record.
C11_EveryAppendStreams ==
  \A i \in Invocations :
    (s[i].impl = "async" /\ s[i].callbacks.onStreamingResult) =>
      /\ Len(s[i].streaming) = Len(s[i].boundNodes)
      /\ \A k \in 1..Len(s[i].boundNodes) :
           s[i].streaming[k] = EventOfRecord(doc, s[i].variable, s[i].boundNodes[k])

\* C11 as amended: this holds in representative-only mode; in direct mode,
\* and without the callback, no streaming event is emitted at all.
C11_InstanceAppendsStream ==
  \A i \in Invocations :
    IF s[i].impl = "async" /\ s[i].callbacks.onStreamingResult /\ s[i].instancesOnly
      THEN /\ Len(s[i].streaming) = Len(s[i].boundNodes)
           /\ \A k \in 1..Len(s[i].boundNodes) :
                s[i].streaming[k] = EventOfRecord(doc, s[i].variable, s[i].boundNodes[k])
      ELSE s[i].streaming = <<>>

\* a running representative-only search that has streamed two records and
\* has met a further match of an instance already recorded
C11_Witness ==
  \E i \in Invocations :
    /\ s[i].pc # "done"
    /\ s[i].instancesOnly
    /\ Len(s[i].streaming) = 2
    /\ \E n \in Range(s[i].inspected) :
         /\ EquivalentPaths(doc, s[i].variable, n) # <<>>
         /\ findTopLevelInstance(doc, n) # n

(* ================================ C12 ================================== *)

\* the progress events emitted by checkNode calls: all events but the initial
\* one and, in a completed search, the final one
ScanEvents(st) ==
  SubSeq(st.progress, 2, Len(st.progress) - (IF st.outcome = "completed" THEN 1 ELSE 0))

\* the ordinals of the visits at which an event is due: the first visit,
\* every tenth visit and the last of n visits
DueVisits(n) ==
  SelectSeq([k \in 1..n |-> k], LAMBDA k : k = 1 \/ k % ProgressEvery = 0 \/ k = n)

\* C12: in a completed search with an onProgress callback and total > 0, the
\* checkNode calls have emitted one progress event at the first visit, at
\* every visit whose ordinal is a multiple of 10 and at the last visit of the
\* traversal, and at no other visit.
C12_ProgressAtFirstTenthAndLast ==
  \A i \in Invocations :
    (/\ Completed(i)
     /\ s[i].impl = "async"
     /\ s[i].callbacks.onProgress
     /\ s[i].totalNodes > 0)
    => [k \in 1..Len(ScanEvents(s[i])) |-> ScanEvents(s[i])[k].current]
         = DueVisits(Len(s[i].visits))

(* ================================ C13 ================================== *)

\* the position of the first "[" or "." of the text, or one past its end
FirstStop(text) ==
  CHOOSE k \in 1..(Len(text) + 1) :
    /\ k = Len(text) + 1 \/ text[k] \in {"[", "."}
    /\ \A j \in 1..(k - 1) : text[j] \notin {"[", "."}

\* the text of a property path before its first "[" or "."
Category(path) == SubSeq(PathText(path), 1, FirstStop(PathText(path)) - 1)

\* the count a summary map holds for a key: absent keys count as zero
CountOf(map, key) == IF key \in DOMAIN map THEN map[key] ELSE 0

\* the matched property paths of a record list, as (record, position) pairs
MatchedPaths(records) ==
  {<<k, j>> \in (1..Len(records)) \X (1..Len(Slots)) :
     j <= Len(records[k].boundProperties)}

\* the call getVariableUsageSummary makes: a search without callbacks
SummaryCall(i) == Returned(i) /\ s[i].callbacks = NoCallbacks

\* C13: in the summary built from the list a search without callbacks
\* returned, totalNodes is the length of nodes, nodesByType counts the records
\* of each node type and of no other type, and propertyUsage counts, for each
\* base category, the matched paths whose text before the first "[" or "."
\* is that category, and nothing else.
C13_SummaryCounts ==
  \A i \in Invocations :
    SummaryCall(i) =>
      LET summary == getVariableUsageSummary(doc, s[i].boundNodes)
          nodes == summary.nodes
      IN  /\ nodes = s[i].boundNodes
          /\ summary.totalNodes = Len(nodes)
          /\ \A t \in DOMAIN summary.nodesByType \cup {"FRAME", "INSTANCE"} :
               CountOf(summary.nodesByType, t)
                 = Cardinality({k \in 1..Len(nodes) : doc.type[nodes[k].node] = t})
          /\ \A c \in DOMAIN summary.propertyUsage \cup {Category(Slots[k]) : k \in 1..Len(Slots)} :
               CountOf(summary.propertyUsage, c)
                 = Cardinality({m \in MatchedPaths(nodes) :
                                  Category(nodes[m[1]].boundProperties[m[2]]) = c})

\* a summary over records of both node types with paths of three categories,
\* one of them counted more than once
C13_Witness ==
  \E i \in Invocations :
    /\ SummaryCall(i)
    /\ LET summary == getVariableUsageSummary(doc, s[i].boundNodes)
       IN  /\ DOMAIN summary.nodesByType = {"FRAME", "INSTANCE"}
           /\ CountOf(summary.propertyUsage, Category("fills[0].color")) >= 2
           /\ CountOf(summary.propertyUsage, Category("width")) >= 1
           /\ CountOf(summary.propertyUsage, Category("componentProperties.p")) >= 1

(* ================================ C14 ================================== *)

\* C14: at every moment, what an asynchronous invocation has recorded,
\* visited and looked up is the beginning of what the same call does when it
\* runs alone over the document, whatever the other invocation (in flight at
\* the same time or returned before) has done; a completed invocation has
\* returned exactly the list, and ends with exactly the id set, key cache,
\* processed instances and visit count, of the call run alone.
C14_InvocationsDoNotInterfere ==
  \A i \in Invocations :
    (Started(i) /\ s[i].impl = "async") =>
      LET alone == Uncancelled(i)
      IN  /\ IsPrefix(s[i].boundNodes, alone.boundNodes)
          /\ IsPrefix(s[i].visits, alone.visits)
          /\ IsPrefix(s[i].lookups, alone.lookups)
          /\ s[i].targetVariableIds \subseteq alone.targetVariableIds
          /\ DOMAIN s[i].variableKeyCache \subseteq DOMAIN alone.variableKeyCache
          /\ s[i].processedInstances \subseteq alone.processedInstances
          /\ Completed(i) =>
               /\ s[i].boundNodes = alone.boundNodes
               /\ s[i].targetVariableIds = alone.targetVariableIds
               /\ s[i].variableKeyCache = alone.variableKeyCache
               /\ s[i].processedInstances = alone.processedInstances
               /\ s[i].nodesProcessed = alone.nodesProcessed

\* two asynchronous invocations for different variables, both at a yield,
\* each with a record and a resolved alias of its own
C14_Witness ==
  /\ s[1].pc = "yield" /\ s[2].pc = "yield"
  /\ s[1].variable # s[2].variable
  /\ s[1].boundNodes # <<>> /\ s[2].boundNodes # <<>>
  /\ s[1].lookups # <<>> /\ s[2].lookups # <<>>

(* ================================ C15 ================================== *)

\* C15: in a search that ended cancelled, the visit counter, which is what it
\* was when the cancellation was observed, is less than the total, and every
\* progress event delivered, the last one included, shows fewer visits than
\* the total.
C15_CancelledBelowTotal ==
  \A i \in Invocations :
    Cancelled(i) =>
      /\ s[i].nodesProcessed < s[i].totalNodes
      /\ \A k \in 1..Len(s[i].progress) :
           /\ s[i].progress[k].current < s[i].progress[k].total
           /\ s[i].progress[k].current <= s[i].nodesProcessed

\* a cancelled search that had visited a node, found a match and reported
\* progress on a visit
C15_Witness ==
  \E i \in Invocations :
    /\ Cancelled(i)
    /\ s[i].nodesProcessed >= 1
    /\ s[i].boundNodes # <<>>
    /\ s[i].progress # <<>>
    /\ s[i].progress[Len(s[i].progress)].current >= 1

(* ================================ C16 ================================== *)

\* An event has just been emitted: the initial update (nothing visited yet),
\* an update of checkNode (the search is at the yield that follows it) or the
\* final update (the search has completed).
JustEmitted(st) ==
  /\ st.progress # <<>>
  /\ \/ st.pc = "yield"
     \/ st.pc = "done" /\ st.outcome = "completed"
     \/ st.pc = "enter" /\ st.nodesProcessed = 0

\* C16: every progress event of a search has 0 <= current <= total, with the
\* total of the search in all of them; from one event to the next neither
\* current nor nodesFound decreases; and the event just emitted carries the
\* number of records the list has at that moment.
C16_ProgressEventsWellFormed ==
  \A i \in Invocations :
    LET events == s[i].progress IN
    /\ \A k \in 1..Len(events) :
         /\ 0 <= events[k].current
         /\ events[k].current <= events[k].total
         /\ events[k].total = s[i].totalNodes
         /\ events[k].nodesFound <= Len(s[i].boundNodes)
    /\ \A k \in 1..(Len(events) - 1) :
         /\ events[k].current <= events[k + 1].current
         /\ events[k].nodesFound <= events[k + 1].nodesFound
    /\ JustEmitted(s[i]) => events[Len(events)].nodesFound = Len(s[i].boundNodes)

\* a completed search with four events, the last two of which report more
\* matches than the one before them
C16_Witness ==
  \E i \in Invocations :
    /\ Completed(i)
    /\ Len(s[i].progress) >= 4
    /\ s[i].progress[2].nodesFound < s[i].progress[3].nodesFound
    /\ s[i].progress[3].nodesFound < s[i].progress[4].nodesFound

(* ================================ C17 ================================== *)

\* the nodes of the container's subtree, the container included, that are
\* reachable (no invisible or locked ancestor-or-self) and match
ReachableMatches(d, variable, c) ==
  {m \in {c} \cup Descendants(d, c) :
     /\ Unpruned(d, m)
     /\ ReadsCleanly(d, m)
     /\ EquivalentPaths(d, variable, m) # <<>>}

\* the INSTANCE nodes of the scope that are not nested in another INSTANCE
OutermostInstances(d, pageId) ==
  {c \in 1..d.n :
     /\ d.type[c] = "INSTANCE"
     /\ d.page[c] \in Range(ScopePages(pageId))
     /\ \A a \in Ancestors(d, c) : d.type[a] # "INSTANCE"}

\* C17: a completed search in representative-only mode has a record naming
\* every outermost INSTANCE container of the scope, told apart by node id,
\* that has a reachable matching node, whatever the other containers are
\* called.
C17_RecordPerContainerId ==
  \A i \in Invocations :
    (Completed(i) /\ s[i].instancesOnly) =>
      \A c \in OutermostInstances(doc, s[i].pageId) :
        ReachableMatches(doc, s[i].variable, c) # {}
          => c \in Range(RecordNodes(s[i].boundNodes))

(* ================================ C18 ================================== *)

\* the INSTANCE nodes among the node and its ancestors
EnclosingInstances(d, m) == {a \in AncestorsOrSelf(d, m) : d.type[a] = "INSTANCE"}

\* the nearest of them: all the others are its ancestors
NearestInstances(d, m) ==
  {a \in EnclosingInstances(d, m) : EnclosingInstances(d, m) \subseteq AncestorsOrSelf(d, a)}

\* the outermost of them: none of the others is its ancestor
OutermostInstancesOf(d, m) ==
  {a \in EnclosingInstances(d, m) : EnclosingInstances(d, a) = {a}}

\* the matching nodes a record can have been created for: inspected nodes
\* whose matched paths are the paths of the record
RecordedFor(d, st, r) ==
  {m \in Range(st.inspected) :
     /\ ReadsCleanly(d, m)
     /\ EquivalentPaths(d, st.variable, m) # <<>>
     /\ EquivalentPaths(d, st.variable, m) = r.boundProperties}

\* C18 as claimed: in representative-only mode every record names an
\* INSTANCE and was created for a matching node whose nearest enclosing
\* INSTANCE (the node itself when it is one) is the node the record names.
C18_RecordNamesNearestInstance ==
  \A i \in Invocations :
    s[i].instancesOnly =>
      \A r \in Range(s[i].boundNodes) :
        /\ doc.type[r.node] = "INSTANCE"
        /\ \E m \in RecordedFor(doc, s[i], r) : r.node \in NearestInstances(doc, m)

\* C18 as amended: the record names the outermost enclosing INSTANCE of the
\* matching node it was created for.
C18_RecordNamesOutermostInstance ==
  \A i \in Invocations :
    s[i].instancesOnly =>
      \A r \in Range(s[i].boundNodes) :
        /\ doc.type[r.node] = "INSTANCE"
        /\ \E m \in RecordedFor(doc, s[i], r) : r.node \in OutermostInstancesOf(doc, m)

\* a record created for a match inside an INSTANCE nested in the INSTANCE
\* the record names, no other node of the document matching
C18_Witness ==
  \E i \in Invocations :
    /\ Completed(i)
    /\ s[i].instancesOnly
    /\ Len(s[i].boundNodes) = 1
    /\ RecordedFor(doc, s[i], s[i].boundNodes[1]) # {}
    /\ \A m \in RecordedFor(doc, s[i], s[i].boundNodes[1]) :
         /\ s[i].boundNodes[1].node \in OutermostInstancesOf(doc, m)
         /\ s[i].boundNodes[1].node \notin NearestInstances(doc, m)

(* ================================ C19 ================================== *)

\* the resolution of the alias id fails: getVariableById throws or returns
\* nothing
ResolutionFails(alias) == getVariableById(alias).status # "ok"

\* C19: whatever the key of the queried variable, no check of an alias whose
\* resolution fails returns true, the first no more than the later ones: no
\* record of a direct-mode search lists a property bound to such an alias.
C19_FailedResolutionNeverMatches ==
  \A i \in Invocations :
    ~s[i].instancesOnly =>
      \A r \in Range(s[i].boundNodes) :
        \A k \in 1..Len(Slots) :
          Slots[k] \in Range(r.boundProperties)
            => ~ResolutionFails(doc.bound[r.node][k])

(* ================================ C20 ================================== *)

\* C20: within one search getVariableById has been called at most once for
\* each alias id, whatever the call gave, and never for the id of the queried
\* variable; an id once looked up is in the key cache, from which (or from the
\* id set) the later checks are answered.
C20_AtMostOneLookupPerAlias ==
  \A i \in Invocations :
    /\ \A j, k \in 1..Len(s[i].lookups) : s[i].lookups[j] = s[i].lookups[k] => j = k
    /\ s[i].variable.id \notin Range(s[i].lookups)
    /\ Range(s[i].lookups) \subseteq DOMAIN s[i].variableKeyCache

\* an asynchronous search that has inspected two nodes, each with two bindings
\* to one alias whose lookup fails, and has looked that alias up
C20_Witness ==
  \E i \in Invocations :
    /\ s[i].impl = "async"
    /\ Len(s[i].inspected) >= 2
    /\ \E a \in Range(s[i].lookups) :
         /\ ResolutionFails(a)
         /\ \A n \in Range(s[i].inspected) :
              Cardinality({k \in 1..Len(Slots) : SlotIsRead(doc, n, k) /\ doc.bound[n][k] = a}) >= 2

(* ================================ C21 ================================== *)

\* the number of checkNode visits made since the last yield of the scan
VisitsSinceYield(st) ==
  st.nodesProcessed -
    (IF ScanEvents(st) = <<>> THEN 0 ELSE ScanEvents(st)[Len(ScanEvents(st))].current)

\* C21: with or without an onProgress callback, the asynchronous search has
\* never made more than 10 checkNode visits since its last yield (or since its
\* start, before the first yield).
C21_YieldWithinTenVisits ==
  \A i \in Invocations :
    (Started(i) /\ s[i].impl = "async") => VisitsSinceYield(s[i]) <= ProgressEvery

(* ================================ C22 ================================== *)

\* the nodes of the searched pages
ScopeNodes(d, pageId) == Range(ScopeOrder(d, pageId))

\* the nodes of the searched pages that lie in the subtree of an INSTANCE
InstanceSubtreeNodes(d, pageId) ==
  {n \in ScopeNodes(d, pageId) : EnclosingInstances(d, n) # {}}

\* C22: the total of the pre-pass is, in direct mode, the number of nodes
\* under the searched pages and, in representative-only mode, the number of
\* those nodes that lie in the subtree of at least one INSTANCE, each counted
\* once.
C22_TotalCountsEachNodeOnce ==
  \A i \in Invocations :
    (Started(i) /\ s[i].impl = "async") =>
      s[i].totalNodes =
        (IF s[i].instancesOnly
           THEN Cardinality(InstanceSubtreeNodes(doc, s[i].pageId))
           ELSE Cardinality(ScopeNodes(doc, s[i].pageId)))

(* ================================ C23 ================================== *)

\* the node or one of its ancestors is locked
UnderLock(d, node) == \E a \in AncestorsOrSelf(d, node) : d.locked[a]

\* C23: in both modes and both implementations, no inspected node (no node
\* whose bindings were passed to isMatchingVariable) is locked or lies beneath
\* a locked node, and no record names such a node.
C23_NothingUnderLock ==
  \A i \in Invocations :
    /\ \A n \in Range(s[i].inspected) : ~UnderLock(doc, n)
    /\ \A k \in 1..Len(s[i].boundNodes) : ~UnderLock(doc, s[i].boundNodes[k].node)

(* ================================ C24 ================================== *)

\* the positions, in the order of inspection, of the matching nodes that map
\* to the representative
MatchPositions(d, st, representative) ==
  {p \in 1..Len(st.inspected) :
     /\ ReadsCleanly(d, st.inspected[p])
     /\ EquivalentPaths(d, st.variable, st.inspected[p]) # <<>>
     /\ representative \in OutermostInstancesOf(d, st.inspected[p])}

\* the first of them
FirstMatchPosition(d, st, representative) ==
  CHOOSE p \in MatchPositions(d, st, representative) :
    \A q \in MatchPositions(d, st, representative) : p <= q

\* C24: in representative-only mode, at every moment of a search, the
\* property list of each record is the list of the first matching node
\* inspected that maps to its representative, and the records stand in the
\* order of those first matches: later matches of a representative change
\* neither the list of its record nor its position.
C24_RecordKeepsFirstMatch ==
  \A i \in Invocations :
    s[i].instancesOnly =>
      \A k \in 1..Len(s[i].boundNodes) :
        LET r == s[i].boundNodes[k] IN
          /\ MatchPositions(doc, s[i], r.node) # {}
          /\ r.boundProperties =
               EquivalentPaths(doc, s[i].variable,
                               s[i].inspected[FirstMatchPosition(doc, s[i], r.node)])
          /\ \A j \in 1..(k - 1) :
               FirstMatchPosition(doc, s[i], s[i].boundNodes[j].node)
                 < FirstMatchPosition(doc, s[i], r.node)

\* a representative-only search has returned a record for a representative
\* with a later match whose property list differs from the recorded one
C24_Witness ==
  \E i \in Invocations :
    /\ Completed(i) /\ s[i].instancesOnly
    /\ \E k \in 1..Len(s[i].boundNodes) :
         \E p \in MatchPositions(doc, s[i], s[i].boundNodes[k].node) :
           /\ p > FirstMatchPosition(doc, s[i], s[i].boundNodes[k].node)
           /\ EquivalentPaths(doc, s[i].variable, s[i].inspected[p])
                # s[i].boundNodes[k].boundProperties

(* ================================ C25 ================================== *)

\* the invocation is an asynchronous search that has been called
AsyncStarted(i) == Started(i) /\ s[i].impl = "async"

\* C25: every call of the asynchronous search, its yields resuming, returns;
\* from the call on, total is the value of the pre-pass, set before the first
\* visit and never changed; the call ends cancelled or completed (the return
\* for an unknown page counting as a completion with nothing to scan), never
\* both, cancelled exactly when the cancelled flag was set; once the flag is
\* set the call has returned, and a call that returned visits nothing more.
C25_SearchReturns ==
  /\ \A i \in Invocations : AsyncStarted(i) ~> Returned(i)
  /\ [](\A i \in Invocations :
          AsyncStarted(i) =>
            /\ s[i].totalNodes = CountTotalNodes(doc, s[i])
            /\ s[i].cancelled => Returned(i)
            /\ Returned(i) =>
                 /\ s[i].outcome \in {"completed", "cancelled", "pageNotFound"}
                 /\ (s[i].outcome = "cancelled") <=> s[i].cancelled
                 /\ s[i].cur = 0 /\ s[i].stack = <<>>)
  /\ [][\A i \in Invocations :
          /\ ~Started(i) /\ AsyncStarted(i)' => (s[i].visits = <<>>)'
          /\ AsyncStarted(i) => s'[i].totalNodes = s[i].totalNodes
          /\ (AsyncStarted(i) /\ Returned(i)) => s'[i] = s[i]]_vars

\* a search over both pages has yielded at its first visit, gone on to the
\* second page and returned after visiting every node
C25_Witness ==
  \E i \in Invocations :
    /\ Completed(i) /\ s[i].impl = "async"
    /\ s[i].callbacks.onProgress
    /\ s[i].pageId = ""
    /\ s[i].totalNodes = MaxNodes
    /\ Len(s[i].visits) = MaxNodes

(* ================================ C26 ================================== *)

\* Call j is the search that getVariableUsageSummary makes for the summary
\* of search i: a later call without callbacks for the same variable, mode
\* and scope.
SummarySearchOf(i, j) ==
  /\ i < j
  /\ Returned(i) /\ Returned(j)
  /\ SameArguments(i, j)
  /\ s[j].callbacks = NoCallbacks

\* C26: the summary reported for a search counts as many nodes as the search
\* has reported records, whatever the outcome of the search.
C26_SummaryOfSameRecords ==
  \A i, j \in Invocations :
    SummarySearchOf(i, j) =>
      getVariableUsageSummary(doc, s[j].boundNodes).totalNodes = Len(s[i].boundNodes)

(* ================================ C27 ================================== *)

\* C27: at every moment of a search, in both modes and both implementations,
\* no two records of the result list name the same node and every record has
\* at least one matched property.
C27_RecordsDistinctAndNonEmpty ==
  \A i \in Invocations :
    /\ \A j, k \in 1..Len(s[i].boundNodes) :
         s[i].boundNodes[j].node = s[i].boundNodes[k].node => j = k
    /\ \A k \in 1..Len(s[i].boundNodes) : s[i].boundNodes[k].boundProperties # <<>>

\* a representative-only search has inspected a matching node in every node
\* of the document and returned two records, fewer than the matches
C27_Witness ==
  \E i \in Invocations :
    /\ Completed(i) /\ s[i].instancesOnly
    /\ Len(s[i].inspected) >= MaxNodes
    /\ \A p \in 1..Len(s[i].inspected) :
         EquivalentPaths(doc, s[i].variable, s[i].inspected[p]) # <<>>
    /\ Len(s[i].boundNodes) = 2

(* ================================ C28 ================================== *)

RECURSIVE RunToYield(_, _, _)
\* the invocation run, without cancellation, up to the yield of its n-th visit
RunToYield(d, st, n) ==
  IF st.pc = "done" \/ (st.pc = "yield" /\ st.nodesProcessed = n) THEN st
  ELSE RunToYield(d, StepAlone(d, st), n)

\* invocation i as it stood at the yield during which its flag was set
AtCancelRequest(i) ==
  RunToYield(doc, Begin(doc, Idle, s[i].impl, s[i].variable, s[i].instancesOnly,
                        s[i].pageId, s[i].callbacks),
             cancelRequestedAt[i])

\* C28: from the yield during which the cancellation flag was set, the search
\* inspects at most one further node, the node whose visit that yield
\* suspended, appends at most one further record and emits at most one
\* further streaming event.
C28_AtMostOneMoreAfterCancel ==
  \A i \in Invocations :
    (AsyncStarted(i) /\ cancelFlag[i] /\ cancelRequestedAt[i] >= 1) =>
      LET before == AtCancelRequest(i) IN
        /\ s[i].inspected \in {before.inspected, Append(before.inspected, before.cur)}
        /\ IsPrefix(before.boundNodes, s[i].boundNodes)
        /\ Len(s[i].boundNodes) <= Len(before.boundNodes) + 1
        /\ IsPrefix(before.streaming, s[i].streaming)
        /\ Len(s[i].streaming) <= Len(before.streaming) + 1

\* a search cancelled during a yield has returned after inspecting the
\* suspended node, which gave one more record and one more streaming event
C28_Witness ==
  \E i \in Invocations :
    /\ Cancelled(i)
    /\ cancelRequestedAt[i] >= 1
    /\ Len(s[i].inspected) = Len(AtCancelRequest(i).inspected) + 1
    /\ Len(s[i].boundNodes) = Len(AtCancelRequest(i).boundNodes) + 1
    /\ Len(s[i].streaming) = Len(AtCancelRequest(i).streaming) + 1

(* ================================ C29 ================================== *)

\* the last progress event delivered so far
LastProgress(st) == st.progress[Len(st.progress)]

\* C29: a search with an onProgress callback and total > 0 that has completed
\* has delivered, as its last progress event, visited = total with the number
\* of records returned, however many nodes were visited; a search whose total
\* is 0 delivers no progress event.
C29_LastEventReportsTotal ==
  \A i \in Invocations :
    AsyncStarted(i) =>
      /\ (Completed(i) /\ s[i].callbacks.onProgress /\ s[i].totalNodes > 0) =>
           /\ s[i].progress # <<>>
           /\ LastProgress(s[i]) = [current |-> s[i].totalNodes,
                                     total |-> s[i].totalNodes,
                                     nodesFound |-> Len(s[i].boundNodes)]
      /\ s[i].totalNodes = 0 => s[i].progress = <<>>

\* a search with callbacks has completed with fewer visits than total,
\* behind a pruned subtree, and with a record
C29_Witness ==
  \E i \in Invocations :
    /\ Completed(i) /\ s[i].impl = "async"
    /\ s[i].callbacks.onProgress
    /\ s[i].totalNodes > 0
    /\ s[i].nodesProcessed < s[i].totalNodes
    /\ s[i].boundNodes # <<>>

(* ================================ C30 ================================== *)

\* what the other implementation returns for the arguments of invocation i,
\* called without callbacks on the same document
OtherImplementation(i) ==
  RunToEnd(doc, Begin(doc, Idle, IF s[i].impl = "async" THEN "sync" ELSE "async",
                      s[i].variable, s[i].instancesOnly, s[i].pageId, NoCallbacks))

\* C30: in direct mode, the asynchronous search called without callbacks and
\* the synchronous search return, for the same variable and pageId on the
\* same document, the same records in the same order: same nodes, matched
\* properties, paths and page names.
C30_DirectModeSameRecords ==
  \A i \in Invocations :
    (Returned(i) /\ ~s[i].instancesOnly /\ s[i].callbacks = NoCallbacks) =>
      s[i].boundNodes = OtherImplementation(i).boundNodes

\* the asynchronous search without callbacks has returned, in direct mode,
\* a record for every node of a document that has nested nodes
C30_Witness ==
  \E i \in Invocations :
    /\ Completed(i) /\ s[i].impl = "async"
    /\ s[i].callbacks = NoCallbacks
    /\ ~s[i].instancesOnly
    /\ Len(s[i].boundNodes) = MaxNodes
    /\ \E n \in 1..doc.n : doc.parent[n] # 0
    /\ OtherImplementation(i).impl = "sync"

====
